---- MODULE Spec2Model ----
(***************************************************************************)
(* A model of functable.py: the FunctionTable mapping (register, lookup,   *)
(* iteration, size) and the FunctionTableProperty descriptor that gives    *)
(* every instance a lazily computed table of bound methods.                *)
(*                                                                         *)
(* Names are sequences of characters so that str.startswith and the slice  *)
(* name[len(prefix):] are computed, not assumed.  A function object is a   *)
(* record with its declared name (__name__), an identity and a body; a     *)
(* bound method is a record of im_func and im_self, as MethodType builds   *)
(* it.  A dict is a TLA+ function whose DOMAIN is its key set.             *)
(***************************************************************************)
EXTENDS Integers, Sequences, FiniteSets, TLC

VARIABLES prefix,    \* self.prefix of the table under test
          table,     \* self._table of the table under test (the unbound table)
          cache,     \* per instance: the value LazyProperty has cached, if any
          nregs,     \* number of register calls made so far (bounded)
          expected,  \* history: for every key, the callable last registered under it
          replaced,  \* history: the keys registered again with another callable
          snap,      \* history: the unbound table as it was when an instance was bound
          bindRuns,  \* history: how many times bind has run for each instance
          accessed,  \* history: whether the instance has accessed the property
          result     \* the last operation, its arguments and its outcome

vars == <<prefix, table, cache, nregs, expected, replaced, snap, bindRuns, accessed, result>>

----------------------------------------------------------------------------
(* Bounds of the model. *)

MaxRegs == 2        \* register calls per behaviour
NumInstances == 2   \* instances of the owning class
MaxBindRuns == 2    \* runs of bind per instance (it reruns only when it raised)

----------------------------------------------------------------------------
(* Values. *)

\* The argument name=None of register, and the absent name.
None == <<"None">>

\* The prefixes a table is constructed with: the default '' and a real one.
Prefixes == { <<>>, <<"p">> }

\* Function objects: declared name, identity, body.  Two of them share the
\* declared name "pa" and the body, and differ only in identity.
Funcs ==
    { [kind |-> "function", name |-> <<"a">>,      id |-> 1, body |-> "pow"],
      [kind |-> "function", name |-> <<"p", "a">>, id |-> 2, body |-> "add"],
      [kind |-> "function", name |-> <<"p", "a">>, id |-> 3, body |-> "add"],
      [kind |-> "function", name |-> <<"p", "b">>, id |-> 4, body |-> "mult"] }

\* Explicit names passed to register.
ExplicitNames == { <<"a">>, <<"b">> }

\* Keys used in lookups: every key a table can hold, so that each is at times
\* present and at times missing.
KeySpace == { <<"a">>, <<"b">>, <<"p", "a">>, <<"p", "b">> }

\* Instances of the owning class; x is the attribute the methods read.
Instances == { [id |-> n, x |-> 41 + n] : n \in 1..NumInstances }

\* The default of Mapping.get when none is given, and a sentinel default.
NoneObject == [kind |-> "NoneType"]
Sentinel == [kind |-> "object"]
Defaults == { NoneObject, Sentinel }

\* The argument the methods are called with.
CallArg == 3

----------------------------------------------------------------------------
(* Python primitives the code uses. *)

\* MethodType(unbound, instance, cls): a bound method.
MethodType(unbound, instance) ==
    [kind |-> "method", im_func |-> unbound, im_self |-> instance]

\* f.__name__: a bound method answers with the name of its function.
DeclaredName(f) ==
    IF f.kind = "method" THEN f.im_func.name ELSE f.name

\* str.startswith
startswith(s, p) ==
    Len(p) <= Len(s) /\ SubSeq(s, 1, Len(p)) = p

\* s[n:]
SliceFrom(s, n) == SubSeq(s, n + 1, Len(s))

\* Calling a function object with an explicit receiver and one argument.
CallFunction(f, self, y) ==
    CASE f.body = "add"  -> self.x + y
      [] f.body = "mult" -> self.x * y
      [] f.body = "pow"  -> self.x ^ y

\* Calling a callable of a table: a bound method supplies its receiver.
CallMethod(m, y) == CallFunction(m.im_func, m.im_self, y)

\* {} and d[k] = v on a dict.
EmptyDict == [k \in {} |-> k]

SetItem(d, k, v) ==
    [x \in (DOMAIN d) \cup {k} |-> IF x = k THEN v ELSE d[x]]

\* The orders in which a dict may be iterated: the order is the
\* interpreter's, so every order is possible.
Orders(d) ==
    { o \in [1..Cardinality(DOMAIN d) -> DOMAIN d] :
        \A i, j \in DOMAIN o : i # j => o[i] # o[j] }

----------------------------------------------------------------------------
(* FunctionTable *)

\* register that forgets to strip the prefix.
register_nostrip(tbl, pfx, f, name) ==
    IF name = None
    THEN IF startswith(DeclaredName(f), pfx)
         THEN [raised |-> FALSE, table |-> SetItem(tbl, DeclaredName(f), f)]
         ELSE [raised |-> TRUE, table |-> tbl]
    ELSE [raised |-> FALSE, table |-> SetItem(tbl, name, f)]

\* register that keeps the first callable of a key (dict.setdefault).
register_firstwins(tbl, pfx, f, name) ==
    LET key == IF name = None THEN SliceFrom(DeclaredName(f), Len(pfx)) ELSE name
    IN  IF name = None /\ ~startswith(DeclaredName(f), pfx)
        THEN [raised |-> TRUE, table |-> tbl]
        ELSE [raised |-> FALSE,
              table |-> IF key \in DOMAIN tbl THEN tbl ELSE SetItem(tbl, key, f)]

\* FunctionTable.register: the table after the call, or the AssertionError.
register(tbl, pfx, f, name) ==
    IF name = None
    THEN IF startswith(DeclaredName(f), pfx)
         THEN [raised |-> FALSE,
               table |-> SetItem(tbl, SliceFrom(DeclaredName(f), Len(pfx)), f)]
         ELSE [raised |-> TRUE, table |-> tbl]
    ELSE [raised |-> FALSE, table |-> SetItem(tbl, name, f)]

\* getitem that answers None for a missing key instead of raising.
getitem_noraise(tbl, methodname) ==
    IF methodname \in DOMAIN tbl
    THEN [raised |-> FALSE, value |-> tbl[methodname]]
    ELSE [raised |-> FALSE, value |-> NoneObject]

\* FunctionTable.__getitem__: the value, or the KeyError of the dict.
getitem(tbl, methodname) ==
    IF methodname \in DOMAIN tbl
    THEN [raised |-> FALSE, value |-> tbl[methodname]]
    ELSE [raised |-> TRUE, value |-> NoneObject]

\* Mapping.get: __getitem__ with the KeyError turned into the default.
get(tbl, key, default) ==
    LET r == getitem(tbl, key)
    IN  IF r.raised THEN [raised |-> FALSE, value |-> default] ELSE r

\* Mapping.__contains__: __getitem__ with the KeyError turned into False.
contains(tbl, key) == ~getitem(tbl, key).raised

\* len that counts the distinct callables instead of the keys.
len_values(tbl) == Cardinality({ tbl[k] : k \in DOMAIN tbl })

\* FunctionTable.__len__
len(tbl) == Cardinality(DOMAIN tbl)

\* FunctionTable.__iter__ / keys(): the keys, in the order of the dict.
iter(tbl, order) == [n \in DOMAIN order |-> order[n]]

----------------------------------------------------------------------------
(* FunctionTableProperty *)

RECURSIVE bindLoop(_, _, _, _, _)
\* The loop of bind: register every entry, bound, in the table being built.
bindLoop(tbl, pfx, instance, order, boundtable) ==
    IF order = <<>>
    THEN [raised |-> FALSE, table |-> boundtable]
    ELSE LET unbound == tbl[Head(order)]
             bound == MethodType(unbound, instance)
             r == register(boundtable, pfx, bound, None)
         IN  IF r.raised
             THEN r
             ELSE bindLoop(tbl, pfx, instance, Tail(order), r.table)

\* bind(instance): the table of methods bound to instance, or the
\* AssertionError of a register call it makes.
bind(tbl, pfx, instance, order) ==
    bindLoop(tbl, pfx, instance, order, EmptyDict)

----------------------------------------------------------------------------
(* State *)

NotComputed == [computed |-> FALSE]
Computed(v) == [computed |-> TRUE, value |-> v]

Idle == [op |-> "init"]

Init ==
    /\ prefix \in Prefixes
    /\ table = EmptyDict
    /\ cache = [i \in Instances |-> NotComputed]
    /\ nregs = 0
    /\ expected = EmptyDict
    /\ replaced = {}
    /\ snap = [i \in Instances |-> NotComputed]
    /\ bindRuns = [i \in Instances |-> 0]
    /\ accessed = [i \in Instances |-> FALSE]
    /\ result = Idle

\* The suffixes of a name, the empty one included.
Suffixes(n) == { SubSeq(n, k, Len(n)) : k \in 1..(Len(n) + 1) }

\* The key the contract gives a registration: the explicit name, or the
\* declared name with the leading prefix removed, which is the s with
\* prefix + s = declared name.
ResolvedKey(f, name) ==
    IF name = None
    THEN CHOOSE s \in Suffixes(DeclaredName(f)) : prefix \o s = DeclaredName(f)
    ELSE name

\* table.register(f, name)
Register(f, name) ==
    /\ nregs < MaxRegs
    /\ LET r == register(table, prefix, f, name)
       IN  /\ table' = r.table
           /\ expected' = IF r.raised THEN expected
                          ELSE SetItem(expected, ResolvedKey(f, name), f)
           /\ replaced' = IF ~r.raised /\ ResolvedKey(f, name) \in DOMAIN expected
                              /\ expected[ResolvedKey(f, name)] # f
                          THEN replaced \cup {ResolvedKey(f, name)}
                          ELSE replaced
           /\ result' = [op |-> "register", f |-> f, name |-> name,
                         raised |-> r.raised]
    /\ nregs' = nregs + 1
    /\ UNCHANGED <<prefix, cache, snap, bindRuns, accessed>>

\* instance.ft: the cached table if there is one; otherwise bind runs, and
\* its value is cached unless it raised.
InstanceGet(i) ==
    /\ accessed' = [accessed EXCEPT ![i] = TRUE]
    /\ IF cache[i].computed
       THEN /\ result' = [op |-> "instance_get", instance |-> i,
                          raised |-> FALSE, value |-> cache[i].value]
            /\ UNCHANGED <<cache, snap, bindRuns>>
       ELSE /\ bindRuns[i] < MaxBindRuns
            /\ \E order \in Orders(table) :
                 LET r == bind(table, prefix, i, order)
                 IN  /\ cache' = IF r.raised THEN cache
                                 ELSE [cache EXCEPT ![i] = Computed(r.table)]
                     /\ snap' = IF r.raised THEN snap
                                ELSE [snap EXCEPT ![i] = Computed(table)]
                     /\ result' = [op |-> "instance_get", instance |-> i,
                                   raised |-> r.raised,
                                   value |-> IF r.raised THEN EmptyDict ELSE r.table]
            /\ bindRuns' = [bindRuns EXCEPT ![i] = @ + 1]
    /\ UNCHANGED <<prefix, table, nregs, expected, replaced>>

\* C.ft: the descriptor itself, which is the unbound table.
ClassGet ==
    /\ result' = [op |-> "class_get", raised |-> FALSE, value |-> table]
    /\ UNCHANGED <<prefix, table, cache, nregs, expected, replaced, snap, bindRuns, accessed>>

\* table[key]
GetItem(key) ==
    /\ LET r == getitem(table, key)
       IN  result' = [op |-> "getitem", key |-> key,
                      raised |-> r.raised, value |-> r.value]
    /\ UNCHANGED <<prefix, table, cache, nregs, expected, replaced, snap, bindRuns, accessed>>

\* table.get(key, default)
Get(key, default) ==
    /\ LET r == get(table, key, default)
       IN  result' = [op |-> "get", key |-> key, default |-> default,
                      raised |-> r.raised, value |-> r.value]
    /\ UNCHANGED <<prefix, table, cache, nregs, expected, replaced, snap, bindRuns, accessed>>

\* key in table
Contains(key) ==
    /\ result' = [op |-> "contains", key |-> key, raised |-> FALSE,
                  value |-> contains(table, key)]
    /\ UNCHANGED <<prefix, table, cache, nregs, expected, replaced, snap, bindRuns, accessed>>

\* len(table)
Len_ ==
    /\ result' = [op |-> "len", raised |-> FALSE, value |-> len(table)]
    /\ UNCHANGED <<prefix, table, cache, nregs, expected, replaced, snap, bindRuns, accessed>>

\* table.keys()
Keys ==
    /\ \E order \in Orders(table) :
         result' = [op |-> "keys", raised |-> FALSE, value |-> iter(table, order)]
    /\ UNCHANGED <<prefix, table, cache, nregs, expected, replaced, snap, bindRuns, accessed>>

\* The callables a table is given: functions, and bound methods as bind
\* registers them.
Methods == { MethodType(f, i) : f \in Funcs, i \in Instances }

\* A FunctionTable on its own: registrations and the Mapping interface.
NextTable ==
    \/ \E f \in Funcs \cup Methods, name \in ExplicitNames \cup {None} :
         Register(f, name)
    \/ \E key \in KeySpace : GetItem(key)
    \/ \E key \in KeySpace, default \in Defaults : Get(key, default)
    \/ \E key \in KeySpace : Contains(key)
    \/ Len_
    \/ Keys

SpecTable == Init /\ [][NextTable]_vars

\* A FunctionTableProperty on a class: registrations in the class body or
\* later, and accesses through the class and through instances.
Next ==
    \/ \E f \in Funcs, name \in ExplicitNames \cup {None} : Register(f, name)
    \/ \E i \in Instances : InstanceGet(i)
    \/ ClassGet

Spec == Init /\ [][Next]_vars

----------------------------------------------------------------------------
(* Properties of a FunctionTable, checked under SpecTable. *)

Range(q) == { q[n] : n \in DOMAIN q }

\* C3: register(f) without a name stores f under its declared name with the
\* leading prefix removed (under the declared name itself when the prefix is
\* empty) and changes nothing else; when the declared name does not start
\* with the prefix the call raises and the table is left as it was.
C3_RegisterDerivedName ==
    [][ (nregs' # nregs /\ result'.name = None) =>
          LET f == result'.f
              n == DeclaredName(f)
          IN  IF \E s \in Suffixes(n) : prefix \o s = n
              THEN LET key == CHOOSE s \in Suffixes(n) : prefix \o s = n
                   IN  /\ ~result'.raised
                       /\ prefix = <<>> => key = n
                       /\ DOMAIN table' = (DOMAIN table) \cup {key}
                       /\ table'[key] = f
                       /\ \A k \in (DOMAIN table) \ {key} : table'[k] = table[k]
              ELSE /\ result'.raised
                   /\ table' = table
      ]_vars

\* Reached: under the prefix "p" a second registration without a name has
\* just been refused, after a first one was stored under its stripped name.
C3_Witness ==
    /\ prefix = <<"p">>
    /\ nregs = 2
    /\ result.op = "register" /\ result.name = None /\ result.raised
    /\ DOMAIN table = { <<"b">> }
    /\ DeclaredName(table[<<"b">>]) = <<"p", "b">>

\* C5: lookup of a registered key returns the very callable registered under
\* it, the last one when the key was registered several times, and a
\* registration under a key already present raises nothing.
C5_LookupIsLastRegistered ==
    /\ (result.op = "getitem" /\ result.key \in DOMAIN expected) =>
          (~result.raised /\ result.value = expected[result.key])
    /\ (result.op = "register" /\ result.raised) =>
          (result.name = None /\ ~startswith(DeclaredName(result.f), prefix))

\* Reached: a lookup of a key that was registered twice, with two callables.
C5_Witness ==
    /\ result.op = "getitem"
    /\ result.key \in replaced
    /\ ~result.raised

\* C8: keys() yields exactly the resolved keys of the successful
\* registrations, each once; len is their number; membership holds exactly
\* for them; and iterating again without a registration yields the same keys.
C8_KeysLenContains ==
    [][ /\ result'.op = "keys" =>
              /\ Range(result'.value) = DOMAIN expected'
              /\ Len(result'.value) = Cardinality(DOMAIN expected')
        /\ result'.op = "len" => result'.value = Cardinality(DOMAIN expected')
        /\ result'.op = "contains" =>
              (result'.value <=> result'.key \in DOMAIN expected')
        /\ (result.op = "keys" /\ result'.op = "keys") =>
              Range(result'.value) = Range(result.value)
      ]_vars

\* Reached: len of a table that two registrations gave one key.
C8_Witness ==
    /\ result.op = "len"
    /\ nregs = 2
    /\ replaced # {}
    /\ result.value = 1

\* C9: table[key] raises KeyError for a missing key and get(key, default)
\* returns the default without raising; for a present key both return the
\* registered callable; neither changes the table.
C9_MissingKey ==
    [][ /\ result'.op = "getitem" =>
              /\ table' = table
              /\ IF result'.key \in DOMAIN table
                 THEN ~result'.raised /\ result'.value = expected[result'.key]
                 ELSE result'.raised
        /\ result'.op = "get" =>
              /\ table' = table
              /\ ~result'.raised
              /\ result'.value = IF result'.key \in DOMAIN table
                                 THEN expected[result'.key]
                                 ELSE result'.default
      ]_vars

\* Reached: get with a sentinel default on a missing key of a table that
\* holds a bound method.
C9_Witness ==
    /\ result.op = "get"
    /\ result.key \notin DOMAIN table
    /\ result.default = Sentinel
    /\ result.value = Sentinel
    /\ \E k \in DOMAIN table : table[k].kind = "method"

----------------------------------------------------------------------------
(* Properties of a FunctionTableProperty, checked under Spec. *)

\* The instances whose bound table has been computed.
Bound == { i \in Instances : cache[i].computed }

\* C1: the bound table an instance obtains on its first access has exactly
\* the keys the unbound table had at that moment, whether the entries were
\* registered with explicit names or without.
C1_BoundKeysEqualUnboundKeys ==
    \A i \in Bound : DOMAIN cache[i].value = DOMAIN snap[i].value

\* C2: for every key k of the unbound table and every instance i, the bound
\* table of i maps k to the unbound callable of k bound to i: the same
\* function underneath, and the same result when called.
C2_BoundEntryIsUnboundEntry ==
    \A i \in Bound :
      \A k \in DOMAIN snap[i].value :
        /\ k \in DOMAIN cache[i].value
        /\ cache[i].value[k].im_func = snap[i].value[k]
        /\ cache[i].value[k].im_self = i
        /\ CallMethod(cache[i].value[k], CallArg)
             = CallFunction(snap[i].value[k], i, CallArg)

\* C4: a registration with an explicit name succeeds whatever the declared
\* name of the callable is, and the prefix assertion is not raised for that
\* entry later either, when an instance first accesses the property.  (An
\* entry registered without a name has passed the assertion, and passes it
\* again in bind; an access can only raise on an explicitly named entry.)
C4_ExplicitNameBypassesPrefix ==
    /\ (result.op = "register" /\ result.name # None) => ~result.raised
    /\ result.op = "instance_get" => ~result.raised

\* C6: bind does not run for an instance before its first access, runs only
\* once over any sequence of accesses, and every later access returns the
\* cached bound table.
C6_BindRunsOnce ==
    /\ \A i \in Instances :
         /\ bindRuns[i] <= 1
         /\ bindRuns[i] > 0 => accessed[i]
         /\ (cache[i].computed /\ result.op = "instance_get"
                               /\ result.instance = i) =>
               (~result.raised /\ result.value = cache[i].value)

\* C7: access through the class returns the unbound table itself; every
\* value looked up in it is the original unbound function; no bound table
\* is computed; and calling the value with an explicit instance gives what
\* the bound entry of that instance gives (for an instance whose bound
\* table was computed from the table as it is now).
C7_ClassAccessIsUnbound ==
    [][ result'.op = "class_get" =>
          /\ result'.value = table
          /\ cache' = cache /\ bindRuns' = bindRuns
          /\ \A k \in DOMAIN result'.value :
                /\ result'.value[k].kind = "function"
                /\ result'.value[k] = expected[k]
                /\ \A i \in Bound :
                      snap[i].value = table =>
                        /\ k \in DOMAIN cache[i].value
                        /\ CallFunction(result'.value[k], i, CallArg)
                             = CallMethod(cache[i].value[k], CallArg)
      ]_vars

\* C10: a registration leaves every computed bound table unchanged: the new
\* key is in the unbound table and not in the bound table of an instance
\* bound before; computing the bound table of an instance leaves the
\* unbound table and the other instances' bound tables unchanged, and the
\* bound table computed then has every key registered so far.
C10_BoundTableIsSnapshot ==
    [][ /\ nregs' # nregs =>
              /\ cache' = cache
              /\ ~result'.raised =>
                    LET key == ResolvedKey(result'.f, result'.name)
                    IN  /\ key \in DOMAIN table'
                        /\ key \notin DOMAIN table =>
                              \A i \in Bound : key \notin DOMAIN cache'[i].value
        /\ result'.op = "instance_get" =>
              LET i == result'.instance
              IN  /\ table' = table
                  /\ \A j \in Instances \ {i} : cache'[j] = cache[j]
                  /\ (~cache[i].computed /\ cache'[i].computed) =>
                        DOMAIN table \subseteq DOMAIN cache'[i].value
      ]_vars

====
